---- MODULE Spec2Model ----
(***************************************************************************)
(* Model of the reddit crawler: src/crawler.py (the persisting variant)    *)
(* and src/main.py (the variant without persistence).                      *)
(*                                                                         *)
(* Python values are tagged records [t |-> <type name>, v |-> <value>], so *)
(* that json.dump / json.load can be modelled by what they do to each type.*)
(* A str whose characters matter (a community name, which is sorted; a     *)
(* comment body, which is sliced) is a tuple of code points; every other   *)
(* str is a TLA+ string.  A dict is the tuple of its (key, value) items in *)
(* insertion order.                                                        *)
(***************************************************************************)
EXTENDS Integers, Sequences, FiniteSets, TLC

\* ------------------------------------------------------------ bounds
\* longest post listing and longest comment listing of the aggregation runs.
MaxPosts == 2
MaxComments == 2
\* comment bodies of every length 0 .. TruncLimit + MaxExcess are tried.
MaxExcess == 50

\* ------------------------------------------------------------ python values
PyNone == [t |-> "NoneType", v |-> <<>>]
PyBool(b) == [t |-> "bool", v |-> b]
PyInt(n) == [t |-> "int", v |-> n]
PyFloat(num, den) == [t |-> "float", v |-> <<num, den>>]
PyStr(s) == [t |-> "str", v |-> s]
PyList(xs) == [t |-> "list", v |-> xs]
PyDict(items) == [t |-> "dict", v |-> items]

\* dict view: the keys, and d[key] (a later item with the same key wins).
Keys(d) == {d.v[i][1] : i \in DOMAIN d.v}
Get(d, key) ==
  LET last == CHOOSE i \in DOMAIN d.v :
                /\ d.v[i][1] = key
                /\ \A j \in DOMAIN d.v : d.v[j][1] = key => j <= i
  IN d.v[last][2]

\* ------------------------------------------------------------ str
\* Python's str comparison: code point by code point, a proper prefix first.
str_lt(a, b) ==
  \E k \in 1..(Len(a) + 1) :
    /\ \A i \in 1..(k - 1) : i <= Len(b) /\ a[i] = b[i]
    /\ \/ k = Len(a) + 1 /\ k <= Len(b)
       \/ k <= Len(a) /\ k <= Len(b) /\ a[k] < b[k]

\* body[:n]
Slice(s, n) == SubSeq(s, 1, IF Len(s) < n THEN Len(s) ELSE n)

\* the code points of "..."
Ellipsis == <<46, 46, 46>>

\* ------------------------------------------------------------ sorted()
\* sorted(xs): ascending and stable; modelled as an insertion sort.
RECURSIVE InsertSorted(_, _)
InsertSorted(x, ys) ==
  IF ys = <<>> THEN <<x>>
  ELSE IF str_lt(x, Head(ys)) THEN <<x>> \o ys
  ELSE <<Head(ys)>> \o InsertSorted(x, Tail(ys))

RECURSIVE sorted(_)
sorted(xs) ==
  IF xs = <<>> THEN <<>>
  ELSE InsertSorted(xs[Len(xs)], sorted(SubSeq(xs, 1, Len(xs) - 1)))

\* list(s) of a set: some enumeration of its elements (the order is the
\* hash order, which sorted() makes irrelevant).
RECURSIVE list(_)
list(s) ==
  IF s = {} THEN <<>>
  ELSE LET x == CHOOSE y \in s : TRUE IN <<x>> \o list(s \ {x})

\* ------------------------------------------------------------ json
\* json.dump(o, f, indent=2, ensure_ascii=False, default=str): the text
\* written, as a JSON value.  A str, list or dict keeps its content; an int
\* and a float become number literals (a float literal keeps its fraction, so
\* it loads as a float); anything else is written as the string str(o).
JNull == [j |-> "null", v |-> <<>>]
JBool(b) == [j |-> "bool", v |-> b]
JNumber(lit, n) == [j |-> "number", v |-> <<lit, n>>]
JString(s) == [j |-> "string", v |-> s]
JArray(xs) == [j |-> "array", v |-> xs]
JObject(members) == [j |-> "object", v |-> members]

RECURSIVE JsonDump(_)
JsonDump(o) ==
  CASE o.t = "NoneType" -> JNull
    [] o.t = "bool" -> JBool(o.v)
    [] o.t = "int" -> JNumber("integer", o.v)
    [] o.t = "float" -> JNumber("real", o.v)
    [] o.t = "str" -> JString(o.v)
    [] o.t = "list" -> JArray([i \in DOMAIN o.v |-> JsonDump(o.v[i])])
    [] o.t = "dict" ->
         JObject([i \in DOMAIN o.v |-> <<o.v[i][1], JsonDump(o.v[i][2])>>])
    [] OTHER -> JString(o.v)

\* json.load(f): the Python value of a JSON text.
RECURSIVE JsonLoad(_)
JsonLoad(x) ==
  CASE x.j = "null" -> PyNone
    [] x.j = "bool" -> PyBool(x.v)
    [] x.j = "number" ->
         IF x.v[1] = "integer" THEN PyInt(x.v[2]) ELSE [t |-> "float", v |-> x.v[2]]
    [] x.j = "string" -> PyStr(x.v)
    [] x.j = "array" -> PyList([i \in DOMAIN x.v |-> JsonLoad(x.v[i])])
    [] x.j = "object" ->
         PyDict([i \in DOMAIN x.v |-> <<x.v[i][1], JsonLoad(x.v[i][2])>>])

\* ------------------------------------------------------------ datetime
\* A datetime is [second, microsecond]; the clock of the model advances in
\* half seconds, one step at every datetime.now().
Tick(dt) ==
  IF dt.microsecond = 0
  THEN [second |-> dt.second, microsecond |-> 500000]
  ELSE [second |-> dt.second + 1, microsecond |-> 0]

\* dt.isoformat(): "<date>T<time>", with ".<microsecond>" only when the
\* microsecond is not 0.  The text is modelled as the tuple of its parts.
isoformat(dt) ==
  IF dt.microsecond = 0 THEN <<"T", dt.second>>
  ELSE <<"T", dt.second, ".", dt.microsecond>>

\* datetime.fromisoformat(text), or NotADate when the text does not parse.
NotADate == [second |-> -1, microsecond |-> -1]
fromisoformat(text) ==
  IF Len(text) = 2 /\ text[1] = "T"
  THEN [second |-> text[2], microsecond |-> 0]
  ELSE IF Len(text) = 4 /\ text[1] = "T" /\ text[3] = "."
  THEN [second |-> text[2], microsecond |-> text[4]]
  ELSE NotADate

\* dt.timestamp(): seconds since the epoch, as the fraction <<num, den>>.
timestamp(dt) == <<2 * dt.second + (dt.microsecond \div 500000), 2>>

\* ------------------------------------------------------------ credentials
CredentialKeys == {"client_id", "client_secret", "user_agent", "username", "password"}

\* Python truthiness of a credential value: None and "" are falsy.
Truthy(o) ==
  CASE o.t = "NoneType" -> FALSE
    [] o.t = "str" -> o.v # ""
    [] OTHER -> TRUE

\* os.getenv(name) and os.getenv(name, default).
getenv(env, name) == env[name]
getenv_default(env, name, default) ==
  IF env[name].t = "NoneType" THEN default ELSE env[name]

\* credentials.update(file_credentials)
update(d, other) ==
  [k \in (DOMAIN d) \cup (DOMAIN other) |->
     IF k \in DOMAIN other THEN other[k] ELSE d[k]]

\* The secrets.json file: absent, present but not loadable as a dict
\* ("invalid": unreadable, not JSON, or not an object), or a JSON object.
NoSecretsFile == [kind |-> "absent", content |-> <<>>]
InvalidSecretsFile == [kind |-> "invalid", content |-> <<>>]
SecretsDict(d) == [kind |-> "dict", content |-> d]

secrets_template ==
  [client_id |-> PyStr("your_reddit_client_id_here"),
   client_secret |-> PyStr("your_reddit_client_secret_here"),
   user_agent |-> PyStr("RedditCrawler/1.0 by YourUsername"),
   username |-> PyStr("your_reddit_username_optional"),
   password |-> PyStr("your_reddit_password_optional")]

\* _create_secrets_template(): [file, raised]; io is how the write goes
\* (no exception is handled here).
_create_secrets_template(secrets, io) ==
  IF secrets.kind = "absent"
  THEN CASE io = "ok" -> [file |-> SecretsDict(secrets_template), raised |-> "none"]
         [] io = "write_error" -> [file |-> InvalidSecretsFile, raised |-> "OSError"]
         [] OTHER -> [file |-> secrets, raised |-> "OSError"]
  ELSE [file |-> secrets, raised |-> "none"]

\* the dictionary of lines 57-74: the environment, then the secrets file
\* merged over it when the environment has no client id.
EnvCredentials(env) ==
  [client_id |-> getenv(env, "client_id"),
   client_secret |-> getenv(env, "client_secret"),
   user_agent |-> getenv_default(env, "user_agent", PyStr("RedditCrawler/1.0")),
   username |-> getenv(env, "username"),
   password |-> getenv(env, "password")]

MergedCredentials(env, secrets) ==
  IF ~Truthy(EnvCredentials(env)["client_id"]) /\ secrets.kind # "absent"
  THEN IF secrets.kind = "dict"
       THEN update(EnvCredentials(env), secrets.content)
       ELSE EnvCredentials(env)
  ELSE EnvCredentials(env)

CredentialsMissingIdOnly(c) == ~Truthy(c["client_id"])
CredentialsMissing(c) == ~Truthy(c["client_id"]) \/ ~Truthy(c["client_secret"])

\* _load_credentials(): [credentials, raised, file].
NoCredentials == <<>>
_load_credentials(env, secrets, io) ==
  LET c == MergedCredentials(env, secrets)
      made == _create_secrets_template(secrets, io)
  IN IF CredentialsMissing(c)
     THEN [credentials |-> NoCredentials,
           raised |-> IF made.raised = "none" THEN "ValueError" ELSE made.raised,
           file |-> made.file]
     ELSE [credentials |-> c, raised |-> "none", file |-> secrets]

\* ------------------------------------------------------------ persistence
\* The output directory maps a file path to [valid, text]: the JSON text of
\* a completed write, or valid = FALSE for a file a failed write left cut off.
PartialFile == [valid |-> FALSE, text |-> JNull]
JsonFile(text) == [valid |-> TRUE, text |-> text]

\* writing a file: io = "ok", "open_error" (open() raises, the file is left
\* as it was) or "write_error" (json.dump raises after open() truncated it).
IOOutcomes == {"ok", "open_error", "write_error"}

Put(dir, path, file) ==
  [q \in (DOMAIN dir) \cup {path} |-> IF q = path THEN file ELSE dir[q]]

\* _save_to_json(data, filename): the directory afterwards, given the time
\* datetime.now() returned.  Every exception is caught and printed.
output_data_flat(now, data, filename) ==
  PyDict(<< <<"timestamp", PyStr(isoformat(now))>>,
            <<"data_type", PyStr(filename)>> >> \o data.v)
output_data(now, data, filename) ==
  PyDict(<< <<"timestamp", PyStr(isoformat(now))>>,
            <<"data_type", PyStr(filename)>>,
            <<"data", data>> >>)

_save_to_json(dir, now, data, filename, io) ==
  LET filepath == filename \o ".json"
  IN CASE io = "ok" -> Put(dir, filepath, JsonFile(JsonDump(output_data(now, data, filename))))
       [] io = "write_error" -> Put(dir, filepath, PartialFile)
       [] OTHER -> dir

\* reading a document back: json.load of the file.
ReadBack(dir, path) == JsonLoad(dir[path].text)

\* ------------------------------------------------------------ listings
\* listing.new(limit=limit): at most limit items.
Take(xs, limit) == SubSeq(xs, 1, IF Len(xs) < limit THEN Len(xs) ELSE limit)

\* default limit of get_active_subreddits, and the limit main.py passes.
DefaultActivityLimit == 100
MainActivityLimit == 50
ActivityLimit(script) ==
  IF script = "crawler" THEN DefaultActivityLimit ELSE MainActivityLimit

\* no failure during a fetch; otherwise the number of items already
\* appended when the exception is raised.
NoFailure == -1

\* ------------------------------------------------------------ comment body
TruncLimit == 200

truncate_body_inclusive(body) ==
  IF Len(body) >= TruncLimit THEN Slice(body, TruncLimit) \o Ellipsis ELSE body
truncate_body(body) ==
  IF Len(body) > TruncLimit THEN Slice(body, TruncLimit) \o Ellipsis ELSE body

\* ------------------------------------------------------------ items
\* the dict appended for a submission (main.py has no num_comments).
PostItem(script, submission) ==
  PyDict(<< <<"title", PyStr(submission.title)>>,
            <<"subreddit", PyStr(submission.subreddit)>>,
            <<"created_utc", PyFloat(submission.created_utc, 1)>>,
            <<"score", PyInt(submission.score)>>,
            <<"url", PyStr("https://reddit.com" \o submission.permalink)>> >>
         \o (IF script = "crawler"
             THEN << <<"num_comments", PyInt(submission.num_comments)>> >>
             ELSE <<>>))

\* the dict appended for a comment.
CommentItem(comment) ==
  PyDict(<< <<"body", PyStr(truncate_body(comment.body))>>,
            <<"subreddit", PyStr(comment.subreddit)>>,
            <<"created_utc", PyFloat(comment.created_utc, 1)>>,
            <<"score", PyInt(comment.score)>>,
            <<"submission_title", PyStr(comment.submission_title)>> >>)

\* get_user_recent_activity, the fetch: [recent_posts, recent_comments,
\* failed, fetched].  The two loops append one dict per listing item; an
\* exception anywhere in them leaves the except branch to return two new
\* empty lists.
FetchActivityPartial(script, submissions, comments, limit, fail_at) ==
  LET ps == Take(submissions, limit)
      cs == Take(comments, limit)
      np == IF fail_at = NoFailure \/ fail_at > Len(ps) THEN Len(ps) ELSE fail_at
      nc == IF fail_at = NoFailure THEN Len(cs)
            ELSE IF fail_at > Len(ps) THEN fail_at - Len(ps) ELSE 0
  IN [recent_posts |-> [i \in 1..np |-> PostItem(script, ps[i])],
      recent_comments |-> [i \in 1..nc |-> CommentItem(cs[i])],
      failed |-> fail_at # NoFailure,
      fetched |-> IF fail_at = NoFailure THEN Len(ps) + Len(cs) ELSE fail_at]
FetchActivity(script, submissions, comments, limit, fail_at) ==
  LET ps == Take(submissions, limit)
      cs == Take(comments, limit)
      recent_posts == [i \in DOMAIN ps |-> PostItem(script, ps[i])]
      recent_comments == [i \in DOMAIN cs |-> CommentItem(cs[i])]
  IN IF fail_at = NoFailure
     THEN [recent_posts |-> recent_posts, recent_comments |-> recent_comments,
           failed |-> FALSE, fetched |-> Len(ps) + Len(cs)]
     ELSE [recent_posts |-> <<>>, recent_comments |-> <<>>,
           failed |-> TRUE, fetched |-> fail_at]

\* activity_data of get_user_recent_activity.
activity_data(username, fetch) ==
  PyDict(<< <<"username", PyStr(username)>>,
            <<"posts_count", PyInt(Len(fetch.recent_posts))>>,
            <<"comments_count", PyInt(Len(fetch.recent_comments))>>,
            <<"recent_posts", PyList(fetch.recent_posts)>>,
            <<"recent_comments", PyList(fetch.recent_comments)>> >>)

\* ------------------------------------------------------------ aggregation
\* The locals of get_active_subreddits: the set subreddits and the dict
\* subreddit_activity, a tuple of <<community, [posts, comments]>> items in
\* insertion order.
EmptyAggregateSeeded == [subreddits |-> {<<>>}, subreddit_activity |-> <<>>]
EmptyAggregate == [subreddits |-> {}, subreddit_activity |-> <<>>]

HasKey(items, key) == \E i \in DOMAIN items : items[i][1] = key

\* if subreddit not in subreddit_activity: subreddit_activity[subreddit] = {0, 0}
EnsureEntryReset(items, key) ==
  IF HasKey(items, key) THEN items
  ELSE << <<key, [posts |-> 0, comments |-> 0]>> >>
EnsureEntry(items, key) ==
  IF HasKey(items, key) THEN items
  ELSE Append(items, <<key, [posts |-> 0, comments |-> 0]>>)

\* subreddit_activity[subreddit][kind] += 1
IncrementAll(items, key, kind) ==
  [i \in DOMAIN items |-> <<items[i][1], [items[i][2] EXCEPT ![kind] = @ + 1]>>]
Increment(items, key, kind) ==
  [i \in DOMAIN items |->
     IF items[i][1] = key
     THEN <<key, [items[i][2] EXCEPT ![kind] = @ + 1]>>
     ELSE items[i]]

\* one iteration of either loop (lines 253-258, 261-266).
CountItemOverwrite(agg, item, kind) ==
  LET subreddit == Get(item, "subreddit").v
  IN [subreddits |-> agg.subreddits \cup {subreddit},
      subreddit_activity |->
        Increment(Append(SelectSeq(agg.subreddit_activity,
                                   LAMBDA e : e[1] # subreddit),
                         <<subreddit, [posts |-> 0, comments |-> 0]>>),
                  subreddit, kind)]
CountItem(agg, item, kind) ==
  LET subreddit == Get(item, "subreddit").v
  IN [subreddits |-> agg.subreddits \cup {subreddit},
      subreddit_activity |->
        Increment(EnsureEntry(agg.subreddit_activity, subreddit), subreddit, kind)]

RECURSIVE CountAll(_, _, _)
CountAll(agg, items, kind) ==
  IF items = <<>> THEN agg
  ELSE CountAll(CountItem(agg, Head(items), kind), Tail(items), kind)

\* the two loops: first the posts, then the comments.
Aggregate(recent_posts, recent_comments) ==
  CountAll(CountAll(EmptyAggregate, recent_posts, "posts"),
           recent_comments, "comments")

\* sorted(list(subreddits))
SortedSubredditsUnsorted(subreddits) == list(subreddits)
SortedSubreddits(subreddits) == sorted(list(subreddits))

\* subreddit_activity as the Python dict that is saved.
ActivityDict(items) ==
  PyDict([i \in DOMAIN items |->
            <<items[i][1],
              PyDict(<< <<"posts", PyInt(items[i][2].posts)>>,
                        <<"comments", PyInt(items[i][2].comments)>> >>)>>])

StrList(names) == PyList([i \in DOMAIN names |-> PyStr(names[i])])

active_subreddits_data(username, agg) ==
  PyDict(<< <<"username", PyStr(username)>>,
            <<"total_active_subreddits", PyInt(Cardinality(agg.subreddits))>>,
            <<"subreddits_list", StrList(SortedSubreddits(agg.subreddits))>>,
            <<"detailed_activity", ActivityDict(agg.subreddit_activity)>> >>)

\* ------------------------------------------------------------ profile
SecondsPerDay == 86400

\* user_info of get_user_public_info (account_age_days only in crawler.py).
UserInfo(script, user, now) ==
  PyDict(<< <<"username", PyStr(user.name)>>,
            <<"created_utc", PyFloat(user.created_utc, 1)>>,
            <<"comment_karma", PyInt(user.comment_karma)>>,
            <<"link_karma", PyInt(user.link_karma)>>,
            <<"is_verified", IF user.has_verified THEN PyBool(user.verified) ELSE PyNone>>,
            <<"has_premium", IF user.has_is_gold THEN PyBool(user.is_gold) ELSE PyNone>> >>
         \o (IF script = "crawler"
             THEN << <<"account_age_days",
                       PyFloat(timestamp(now)[1] - timestamp(now)[2] * user.created_utc,
                               timestamp(now)[2] * SecondsPerDay)>> >>
             ELSE <<>>))

\* ------------------------------------------------------------ own account
\* description of a subscribed subreddit (lines 302-304).
Description(d) ==
  IF d.t = "str" /\ Len(d.v) > TruncLimit
  THEN PyStr(Slice(d.v, TruncLimit) \o Ellipsis)
  ELSE d

SubredditDetail(subreddit) ==
  PyDict(<< <<"name", PyStr(subreddit.display_name)>>,
            <<"title", PyStr(subreddit.title)>>,
            <<"subscribers", PyInt(subreddit.subscribers)>>,
            <<"created_utc", PyFloat(subreddit.created_utc, 1)>>,
            <<"description", Description(subreddit.public_description)>> >>)

\* get_my_subscriptions, the fetch: [subreddits, subreddit_details, failed, fetched].
FetchSubscriptionsPartial(listing, fail_at) ==
  IF fail_at = NoFailure
  THEN [subreddits |-> [i \in DOMAIN listing |-> listing[i].display_name],
        subreddit_details |-> [i \in DOMAIN listing |-> SubredditDetail(listing[i])],
        failed |-> FALSE, fetched |-> Len(listing)]
  ELSE [subreddits |-> [i \in 1..fail_at |-> listing[i].display_name],
        subreddit_details |-> [i \in 1..fail_at |-> SubredditDetail(listing[i])],
        failed |-> TRUE, fetched |-> fail_at]
FetchSubscriptions(listing, fail_at) ==
  IF fail_at = NoFailure
  THEN [subreddits |-> [i \in DOMAIN listing |-> listing[i].display_name],
        subreddit_details |-> [i \in DOMAIN listing |-> SubredditDetail(listing[i])],
        failed |-> FALSE, fetched |-> Len(listing)]
  ELSE [subreddits |-> <<>>, subreddit_details |-> <<>>,
        failed |-> TRUE, fetched |-> fail_at]

subscriptions_data(fetch) ==
  PyDict(<< <<"total_subscriptions", PyInt(Len(fetch.subreddits))>>,
            <<"subscriptions_list", StrList(sorted(fetch.subreddits))>>,
            <<"detailed_subscriptions", PyList(fetch.subreddit_details)>> >>)

FriendDetail(friend) ==
  PyDict(<< <<"username", PyStr(friend.name)>>,
            <<"date_added", PyFloat(friend.date, 1)>> >>)

\* get_my_friends, the fetch: [friends, friends_details, failed, fetched].
FetchFriends(listing, fail_at) ==
  IF fail_at = NoFailure
  THEN [friends |-> [i \in DOMAIN listing |-> listing[i].name],
        friends_details |-> [i \in DOMAIN listing |-> FriendDetail(listing[i])],
        failed |-> FALSE, fetched |-> Len(listing)]
  ELSE [friends |-> <<>>, friends_details |-> <<>>,
        failed |-> TRUE, fetched |-> fail_at]

friends_data(fetch) ==
  PyDict(<< <<"total_friends", PyInt(Len(fetch.friends))>>,
            <<"friends_list", StrList(fetch.friends)>>,
            <<"detailed_friends", PyList(fetch.friends_details)>> >>)

\* summary of crawl_user_complete.
Summary(username, now, info, subs) ==
  PyDict(<< <<"username", PyStr(username)>>,
            <<"crawl_timestamp", PyStr(isoformat(now))>>,
            <<"user_info", info>>,
            <<"active_subreddits_count", PyInt(Len(subs))>>,
            <<"active_subreddits", StrList(subs)>> >>)

\* ------------------------------------------------------------ state
VARIABLES
  script,          \* which file runs: "crawler" (crawler.py) or "main" (main.py)
  pc,              \* position in main()
  environ,         \* os.environ, the five REDDIT_* variables
  secrets_file,    \* secrets.json in the working directory
  reddit,          \* self.reddit: the client's settings, or NoClient
  raised,          \* exception raised by the constructor: "none" or its type
  files,           \* the files of output_dir
  clock,           \* the time the next datetime.now() returns
  remote,          \* what the platform holds: user, submissions, comments, subreddits, friends
  user_info,       \* returned by get_user_public_info
  activity,        \* returned by get_user_recent_activity
  aggregate,       \* subreddits and subreddit_activity of get_active_subreddits
  active_subs,     \* returned by get_active_subreddits
  summary,         \* returned by crawl_user_complete
  my_subs,         \* returned by get_my_subscriptions
  my_friends,      \* returned by get_my_friends
  outcome,         \* per fetch operation: "not_run", "ok" or "failed"
  fetched,         \* per fetch operation: items appended when it ended
  saves            \* per file name: data, time and outcome of the last _save_to_json

vars == <<script, pc, environ, secrets_file, reddit, raised, files, clock, remote,
          user_info, activity, aggregate, active_subs, summary, my_subs,
          my_friends, outcome, fetched, saves>>

Operations == {"public_info", "recent_activity", "subscriptions", "friends"}
NoClient == <<>>
target_username == "femmebxt"

\* ------------------------------------------------------------ inputs
\* community names, as code points: "go", "golang", "rust".
go == <<103, 111>>
golang == <<103, 111, 108, 97, 110, 103>>
rust == <<114, 117, 115, 116>>
Communities == {go, golang, rust}

\* a text of n characters.
Body(n) == [i \in 1..n |-> 97 + (i % 26)]

Submission(community) ==
  [title |-> "a post", subreddit |-> community, created_utc |-> 40, score |-> 7,
   permalink |-> "/r/x/comments/1/", num_comments |-> 2]
Comment(community, body) ==
  [body |-> body, subreddit |-> community, created_utc |-> 41, score |-> 3,
   submission_title |-> "a post"]
Subreddit(community, description) ==
  [display_name |-> community, title |-> "a community", subscribers |-> 9,
   created_utc |-> 5, public_description |-> description]
Friend(name) == [name |-> name, date |-> 30]

User ==
  [name |-> target_username, created_utc |-> 10, comment_karma |-> 12, link_karma |-> 4,
   has_verified |-> TRUE, verified |-> FALSE, has_is_gold |-> FALSE, is_gold |-> FALSE]

SeqsUpTo(S, n) == UNION {[1..k -> S] : k \in 0..n}

Remote(submissions, comments, subreddits, friends) ==
  [user |-> User, submissions |-> submissions, comments |-> comments,
   subreddits |-> subreddits, friends |-> friends]

\* an account without activity, and the account of the specification's
\* example (posts in go and rust, a long comment in go).
QuietRemote == Remote(<<>>, <<>>, <<>>, <<>>)
ExampleRemote ==
  Remote(<<Submission(go), Submission(rust)>>,
         <<Comment(go, Body(TruncLimit + MaxExcess))>>,
         <<Subreddit(rust, PyStr(Body(TruncLimit + MaxExcess))), Subreddit(go, PyNone)>>,
         <<Friend(rust)>>)

\* listings of every length and community for the aggregation runs, and one
\* comment of every body length for the truncation runs.
AggregationRemotes ==
  {Remote([i \in DOMAIN cs |-> Submission(cs[i])],
          [i \in DOMAIN ds |-> Comment(ds[i], Body(1))], <<>>, <<>>) :
     cs \in SeqsUpTo(Communities, MaxPosts), ds \in SeqsUpTo(Communities, MaxComments)}
TruncationRemotes ==
  {Remote(<<>>, <<Comment(go, Body(n))>>, <<>>, <<>>) :
     n \in 0..(TruncLimit + MaxExcess)}

\* environments and secrets files.
Unset == PyNone
EnvOf(id, secret, agent, user, pass) ==
  [client_id |-> id, client_secret |-> secret, user_agent |-> agent,
   username |-> user, password |-> pass]
FullEnv == EnvOf(PyStr("env"), PyStr("env"), PyStr("env"), PyStr("env"), PyStr("env"))
EmptyEnv == EnvOf(Unset, Unset, Unset, Unset, Unset)
Environments ==
  {EnvOf(id, secret, agent, user, pass) :
     id \in {Unset, PyStr(""), PyStr("env")}, secret \in {Unset, PyStr("env")},
     agent \in {Unset, PyStr("env")}, user \in {Unset, PyStr("env")},
     pass \in {Unset, PyStr("env")}}

FullSecrets == SecretsDict([k \in CredentialKeys |-> PyStr("file")])
FileValues(k) ==
  IF k \in {"client_id", "client_secret"}
  THEN {PyNone, PyStr("file")} ELSE {PyStr("file")}
SecretsFiles ==
  {NoSecretsFile, InvalidSecretsFile} \cup
  UNION {{SecretsDict(d) : d \in {f \in [ks -> {PyNone, PyStr("file")}] :
                                    \A k \in ks : f[k] \in FileValues(k)}} :
           ks \in SUBSET CredentialKeys}

\* ------------------------------------------------------------ initial states
EmptyDir == <<>>
NoSaves == <<>>

\* the output directory an earlier run left: its documents for an account
\* that had one post then, written before the clock of this run.
EarlierClock == [second |-> 60, microsecond |-> 500000]
EarlierFetch == FetchActivity("crawler", <<Submission(golang)>>, <<>>, DefaultActivityLimit, NoFailure)
EarlierDir ==
  LET info == UserInfo("crawler", User, EarlierClock)
      agg == Aggregate(EarlierFetch.recent_posts, EarlierFetch.recent_comments)
      d1 == _save_to_json(EmptyDir, Tick(EarlierClock), info,
                          "user_public_info_" \o target_username, "ok")
      d2 == _save_to_json(d1, Tick(Tick(EarlierClock)),
                          activity_data(target_username, EarlierFetch),
                          "user_recent_activity_" \o target_username, "ok")
      d3 == _save_to_json(d2, Tick(Tick(Tick(EarlierClock))),
                          active_subreddits_data(target_username, agg),
                          "active_subreddits_" \o target_username, "ok")
      d4 == _save_to_json(d3, Tick(Tick(Tick(Tick(EarlierClock)))),
                          subscriptions_data(FetchSubscriptions(<<Subreddit(golang, PyNone)>>, NoFailure)),
                          "my_subscriptions", "ok")
  IN _save_to_json(d4, Tick(Tick(Tick(Tick(Tick(EarlierClock))))),
                   friends_data(FetchFriends(<<Friend(golang)>>, NoFailure)),
                   "my_friends", "ok")

StartClock == [second |-> 100, microsecond |-> 0]

\* what every run starts from, whatever the inputs.
InitCommon ==
  /\ reddit = NoClient
  /\ raised = "none"
  /\ clock = StartClock
  /\ user_info = PyNone
  /\ activity = [recent_posts |-> <<>>, recent_comments |-> <<>>]
  /\ aggregate = EmptyAggregate
  /\ active_subs = <<>>
  /\ summary = PyNone
  /\ my_subs = <<>>
  /\ my_friends = <<>>
  /\ outcome = [op \in Operations |-> "not_run"]
  /\ fetched = [op \in Operations |-> 0]
  /\ saves = NoSaves

\* the whole program, either file, on a few accounts and configurations.
Init ==
  /\ InitCommon
  /\ pc = "start"
  /\ script \in {"crawler", "main"}
  /\ remote \in {QuietRemote, ExampleRemote}
  /\ IF script = "crawler"
     THEN /\ environ \in {FullEnv, EmptyEnv}
          /\ secrets_file \in {NoSecretsFile, FullSecrets}
          /\ files \in {EmptyDir, EarlierDir}
     ELSE /\ environ = EmptyEnv
          /\ secrets_file = NoSecretsFile
          /\ files = EmptyDir

\* ------------------------------------------------------------ actions
RecordSave(log, filename, data, now, io) ==
  Put(log, filename, [data |-> data, now |-> now, io |-> io])

\* the settings main.py passes to the constructor (lines 205-220).
MainClient == [k \in CredentialKeys |-> PyStr("hardcoded")]

\* RedditCrawler(...): crawler.py loads the credentials and builds the
\* client; main() turns a ValueError into its credential message, any other
\* exception ends the program.  main.py builds the client from its constants.
Construct ==
  /\ pc = "start"
  /\ \E io \in IOOutcomes :
       LET loaded == _load_credentials(environ, secrets_file, io)
       IN IF script = "crawler"
          THEN /\ secrets_file' = loaded.file
               /\ raised' = loaded.raised
               /\ reddit' = IF loaded.raised = "none"
                            THEN [k \in CredentialKeys |-> loaded.credentials[k]]
                            ELSE NoClient
               /\ pc' = CASE loaded.raised = "none" -> "info"
                          [] loaded.raised = "ValueError" -> "credential_error"
                          [] OTHER -> "crashed"
          ELSE /\ reddit' = MainClient
               /\ pc' = "info"
               /\ UNCHANGED <<secrets_file, raised>>
  /\ UNCHANGED <<script, environ, files, clock, remote, user_info, activity,
                 aggregate, active_subs, summary, my_subs, my_friends, outcome,
                 fetched, saves>>

\* get_user_public_info(username)
GetUserPublicInfo ==
  /\ pc = "info"
  /\ \E failed \in BOOLEAN, io \in IOOutcomes :
       LET info == UserInfo(script, remote.user, clock)
           filename == "user_public_info_" \o target_username
       IN IF failed
          THEN /\ io = "ok"
               /\ user_info' = PyDict(<<>>)
               /\ outcome' = [outcome EXCEPT !["public_info"] = "failed"]
               /\ UNCHANGED <<files, clock, saves>>
          ELSE /\ user_info' = info
               /\ outcome' = [outcome EXCEPT !["public_info"] = "ok"]
               /\ IF script = "crawler"
                  THEN /\ files' = _save_to_json(files, Tick(clock), info, filename, io)
                       /\ saves' = RecordSave(saves, filename, info, Tick(clock), io)
                       /\ clock' = Tick(Tick(clock))
                  ELSE /\ io = "ok"
                       /\ UNCHANGED <<files, clock, saves>>
  /\ pc' = "active"
  /\ UNCHANGED <<script, environ, secrets_file, reddit, raised, remote, activity,
                 aggregate, active_subs, summary, my_subs, my_friends, fetched>>

\* the set main.py's get_active_subreddits collects (lines 144-152).
MainSubreddits(recent_posts, recent_comments) ==
  {Get(recent_posts[i], "subreddit").v : i \in DOMAIN recent_posts}
    \cup {Get(recent_comments[i], "subreddit").v : i \in DOMAIN recent_comments}

\* get_active_subreddits(username): get_user_recent_activity (fetch, and in
\* crawler.py the save of user_recent_activity), the two counting loops, in
\* crawler.py the save of active_subreddits, and the sorted list returned.
GetActiveSubreddits ==
  /\ pc = "active"
  /\ \E fail_at \in {NoFailure} \cup
                    (0..(Len(Take(remote.submissions, ActivityLimit(script)))
                         + Len(Take(remote.comments, ActivityLimit(script))))),
        io1 \in IOOutcomes, io2 \in IOOutcomes :
       LET fetch == FetchActivity(script, remote.submissions, remote.comments,
                                  ActivityLimit(script), fail_at)
           agg == IF script = "crawler"
                  THEN Aggregate(fetch.recent_posts, fetch.recent_comments)
                  ELSE [subreddits |-> MainSubreddits(fetch.recent_posts, fetch.recent_comments),
                        subreddit_activity |-> <<>>]
           recent == "user_recent_activity_" \o target_username
           active == "active_subreddits_" \o target_username
           saved1 == ~fetch.failed
           now1 == clock
           now2 == IF saved1 THEN Tick(clock) ELSE clock
           files1 == IF saved1
                     THEN _save_to_json(files, now1, activity_data(target_username, fetch), recent, io1)
                     ELSE files
           saves1 == IF saved1
                     THEN RecordSave(saves, recent, activity_data(target_username, fetch), now1, io1)
                     ELSE saves
       IN /\ activity' = [recent_posts |-> fetch.recent_posts,
                          recent_comments |-> fetch.recent_comments]
          /\ outcome' = [outcome EXCEPT !["recent_activity"] =
                                          IF fetch.failed THEN "failed" ELSE "ok"]
          /\ fetched' = [fetched EXCEPT !["recent_activity"] = fetch.fetched]
          /\ aggregate' = agg
          /\ active_subs' = SortedSubreddits(agg.subreddits)
          /\ IF script = "crawler"
             THEN /\ saved1 \/ io1 = "ok"
                  /\ files' = _save_to_json(files1, now2,
                                            active_subreddits_data(target_username, agg),
                                            active, io2)
                  /\ saves' = RecordSave(saves1, active,
                                         active_subreddits_data(target_username, agg),
                                         now2, io2)
                  /\ clock' = Tick(now2)
                  /\ pc' = "summary"
             ELSE /\ io1 = "ok" /\ io2 = "ok"
                  /\ pc' = "subscriptions"
                  /\ UNCHANGED <<files, saves, clock>>
  /\ UNCHANGED <<script, environ, secrets_file, reddit, raised, remote, user_info,
                 summary, my_subs, my_friends>>

\* the rest of crawl_user_complete: the summary and its save (crawler.py).
SaveSummaryUncaught ==
  /\ pc = "summary"
  /\ \E io \in IOOutcomes :
       LET data == Summary(target_username, clock, user_info, active_subs)
           filename == "crawl_summary_" \o target_username
       IN /\ summary' = IF io = "ok" THEN data ELSE summary
          /\ files' = _save_to_json(files, Tick(clock), data, filename, io)
          /\ saves' = RecordSave(saves, filename, data, Tick(clock), io)
          /\ clock' = Tick(Tick(clock))
          /\ pc' = IF io = "ok" THEN "subscriptions" ELSE "crashed"
  /\ UNCHANGED <<script, environ, secrets_file, reddit, raised, remote, user_info,
                 activity, aggregate, active_subs, my_subs, my_friends, outcome,
                 fetched>>
SaveSummary ==
  /\ pc = "summary"
  /\ \E io \in IOOutcomes :
       LET data == Summary(target_username, clock, user_info, active_subs)
           filename == "crawl_summary_" \o target_username
       IN /\ summary' = data
          /\ files' = _save_to_json(files, Tick(clock), data, filename, io)
          /\ saves' = RecordSave(saves, filename, data, Tick(clock), io)
          /\ clock' = Tick(Tick(clock))
  /\ pc' = "subscriptions"
  /\ UNCHANGED <<script, environ, secrets_file, reddit, raised, remote, user_info,
                 activity, aggregate, active_subs, my_subs, my_friends, outcome,
                 fetched>>

\* get_my_subscriptions()
GetMySubscriptionsAlwaysSave ==
  /\ pc = "subscriptions"
  /\ \E fail_at \in {NoFailure} \cup (0..Len(remote.subreddits)), io \in IOOutcomes :
       LET fetch == FetchSubscriptions(remote.subreddits, fail_at)
           data == subscriptions_data(fetch)
       IN /\ my_subs' = sorted(fetch.subreddits)
          /\ outcome' = [outcome EXCEPT !["subscriptions"] =
                                          IF fetch.failed THEN "failed" ELSE "ok"]
          /\ fetched' = [fetched EXCEPT !["subscriptions"] = fetch.fetched]
          /\ IF script = "crawler"
             THEN /\ files' = _save_to_json(files, clock, data, "my_subscriptions", io)
                  /\ saves' = RecordSave(saves, "my_subscriptions", data, clock, io)
                  /\ clock' = Tick(clock)
             ELSE /\ io = "ok"
                  /\ UNCHANGED <<files, saves, clock>>
  /\ pc' = "friends"
  /\ UNCHANGED <<script, environ, secrets_file, reddit, raised, remote, user_info,
                 activity, aggregate, active_subs, summary, my_friends>>
GetMySubscriptions ==
  /\ pc = "subscriptions"
  /\ \E fail_at \in {NoFailure} \cup (0..Len(remote.subreddits)), io \in IOOutcomes :
       LET fetch == FetchSubscriptions(remote.subreddits, fail_at)
           data == subscriptions_data(fetch)
       IN /\ my_subs' = sorted(fetch.subreddits)
          /\ outcome' = [outcome EXCEPT !["subscriptions"] =
                                          IF fetch.failed THEN "failed" ELSE "ok"]
          /\ fetched' = [fetched EXCEPT !["subscriptions"] = fetch.fetched]
          /\ IF script = "crawler" /\ ~fetch.failed
             THEN /\ files' = _save_to_json(files, clock, data, "my_subscriptions", io)
                  /\ saves' = RecordSave(saves, "my_subscriptions", data, clock, io)
                  /\ clock' = Tick(clock)
             ELSE /\ io = "ok"
                  /\ UNCHANGED <<files, saves, clock>>
  /\ pc' = "friends"
  /\ UNCHANGED <<script, environ, secrets_file, reddit, raised, remote, user_info,
                 activity, aggregate, active_subs, summary, my_friends>>

\* get_my_friends(), and the last message of main().
GetMyFriends ==
  /\ pc = "friends"
  /\ \E fail_at \in {NoFailure} \cup (0..Len(remote.friends)), io \in IOOutcomes :
       LET fetch == FetchFriends(remote.friends, fail_at)
           data == friends_data(fetch)
       IN /\ my_friends' = fetch.friends
          /\ outcome' = [outcome EXCEPT !["friends"] =
                                          IF fetch.failed THEN "failed" ELSE "ok"]
          /\ fetched' = [fetched EXCEPT !["friends"] = fetch.fetched]
          /\ IF script = "crawler" /\ ~fetch.failed
             THEN /\ files' = _save_to_json(files, clock, data, "my_friends", io)
                  /\ saves' = RecordSave(saves, "my_friends", data, clock, io)
                  /\ clock' = Tick(clock)
             ELSE /\ io = "ok"
                  /\ UNCHANGED <<files, saves, clock>>
  /\ pc' = "done"
  /\ UNCHANGED <<script, environ, secrets_file, reddit, raised, remote, user_info,
                 activity, aggregate, active_subs, summary, my_subs>>

Next ==
  \/ Construct
  \/ GetUserPublicInfo
  \/ GetActiveSubreddits
  \/ SaveSummary
  \/ GetMySubscriptions
  \/ GetMyFriends

Spec == Init /\ [][Next]_vars

\* ------------------------------------------------------------ runs to the end
\* crawler.py on an account without activity and on one with a post, two
\* subscriptions and a friend, with and without credentials.  main() is one
\* sequential program: every call it makes returns or raises, so a step that
\* can be taken is taken.
SmallRemote ==
  Remote(<<Submission(go)>>, <<>>,
         <<Subreddit(rust, PyNone), Subreddit(go, PyNone)>>, <<Friend(rust)>>)

InitFair ==
  /\ InitCommon
  /\ pc = "start"
  /\ script = "crawler"
  /\ remote \in {QuietRemote, SmallRemote}
  /\ environ \in {FullEnv, EmptyEnv}
  /\ secrets_file = NoSecretsFile
  /\ files = EmptyDir

FairSpec == InitFair /\ [][Next]_vars /\ WF_vars(Next)

\* ------------------------------------------------------------ aggregation runs
\* get_active_subreddits on every listing within the bounds: the crawler is
\* constructed from the environment and get_user_public_info has failed.
InitActivity ==
  /\ pc = "active"
  /\ script \in {"crawler", "main"}
  /\ remote \in AggregationRemotes \cup TruncationRemotes
  /\ environ = IF script = "crawler" THEN FullEnv ELSE EmptyEnv
  /\ secrets_file = NoSecretsFile
  /\ reddit = IF script = "crawler" THEN EnvCredentials(FullEnv) ELSE MainClient
  /\ raised = "none"
  /\ files = EmptyDir
  /\ clock = StartClock
  /\ user_info = PyDict(<<>>)
  /\ activity = [recent_posts |-> <<>>, recent_comments |-> <<>>]
  /\ aggregate = EmptyAggregate
  /\ active_subs = <<>>
  /\ summary = PyNone
  /\ my_subs = <<>>
  /\ my_friends = <<>>
  /\ outcome = [op \in Operations |-> IF op = "public_info" THEN "failed" ELSE "not_run"]
  /\ fetched = [op \in Operations |-> 0]
  /\ saves = NoSaves

NextActivity == GetActiveSubreddits

SpecActivity == InitActivity /\ [][NextActivity]_vars

\* ------------------------------------------------------------ credential runs
\* the constructor on every environment and secrets file within the bounds,
\* followed by the first fetch.
InitCredentials ==
  /\ InitCommon
  /\ pc = "start"
  /\ script = "crawler"
  /\ remote = QuietRemote
  /\ environ \in Environments
  /\ secrets_file \in SecretsFiles
  /\ files = EmptyDir

NextCredentials ==
  \/ Construct
  \/ GetUserPublicInfo

SpecCredentials == InitCredentials /\ [][NextCredentials]_vars

\* ------------------------------------------------------------ properties
\* what get_active_subreddits aggregated: the posts and comments that
\* get_user_recent_activity returned, and their community fields.
Aggregated == outcome["recent_activity"] # "not_run"
CommunityOf(item) == Get(item, "subreddit").v
PostCommunities ==
  {CommunityOf(activity.recent_posts[i]) : i \in DOMAIN activity.recent_posts}
CommentCommunities ==
  {CommunityOf(activity.recent_comments[i]) : i \in DOMAIN activity.recent_comments}
PostsIn(c) ==
  Cardinality({i \in DOMAIN activity.recent_posts : CommunityOf(activity.recent_posts[i]) = c})
CommentsIn(c) ==
  Cardinality({i \in DOMAIN activity.recent_comments :
                 CommunityOf(activity.recent_comments[i]) = c})
Range(xs) == {xs[i] : i \in DOMAIN xs}

\* the document a successful last save of a file name left, read back.
SavedOk(filename) == filename \in DOMAIN saves /\ saves[filename].io = "ok"
Document(filename) == ReadBack(files, filename \o ".json")
ActiveName == "active_subreddits_" \o target_username

\* C1: the list get_active_subreddits returns, and the subreddits_list it
\* persists, holds exactly the communities of the posts and of the comments,
\* in strictly ascending lexicographic order (so without duplicates).
C1_SortedUnion ==
  Aggregated =>
    /\ Range(active_subs) = PostCommunities \cup CommentCommunities
    /\ \A i \in DOMAIN active_subs : \A k \in DOMAIN active_subs :
         i < k => str_lt(active_subs[i], active_subs[k])
    /\ SavedOk(ActiveName) =>
         Get(Get(Document(ActiveName), "data"), "subreddits_list") = StrList(active_subs)

\* C1 witness: non-empty posts and comments in disjoint communities were
\* aggregated into a list of several communities, and the document was saved.
C1_Witness ==
  /\ Aggregated
  /\ Len(activity.recent_posts) = MaxPosts
  /\ activity.recent_comments # <<>>
  /\ PostCommunities \cap CommentCommunities = {}
  /\ Len(active_subs) = 3
  /\ SavedOk(ActiveName)

\* C2: the community activity map has exactly one entry for every community
\* of an aggregated item and none for any other, and the entry's counts are
\* the numbers of posts and of comments tagged with that community.
C2_ActivityMap ==
  (Aggregated /\ script = "crawler") =>
    LET items == aggregate.subreddit_activity
    IN /\ \A i \in DOMAIN items : items[i][1] \in PostCommunities \cup CommentCommunities
       /\ \A c \in PostCommunities \cup CommentCommunities :
            /\ Cardinality({i \in DOMAIN items : items[i][1] = c}) = 1
            /\ \A i \in DOMAIN items :
                 items[i][1] = c =>
                   /\ items[i][2].posts = PostsIn(c)
                   /\ items[i][2].comments = CommentsIn(c)

\* C2 witness: a community that has a post and a comment, next to one that
\* has only a post.
C2_Witness ==
  /\ Aggregated /\ script = "crawler"
  /\ \E c \in PostCommunities \cap CommentCommunities :
       \E d \in PostCommunities \ CommentCommunities : c # d

RECURSIVE SumOf(_, _)
SumOf(items, kind) ==
  IF items = <<>> THEN 0 ELSE Head(items)[2][kind] + SumOf(Tail(items), kind)

\* C3: the post counts of the map add up to the number of posts aggregated,
\* and the comment counts to the number of comments aggregated.
C3_CountSums ==
  (Aggregated /\ script = "crawler") =>
    /\ SumOf(aggregate.subreddit_activity, "posts") = Len(activity.recent_posts)
    /\ SumOf(aggregate.subreddit_activity, "comments") = Len(activity.recent_comments)

\* C3 witness: several posts and several comments over several communities.
C3_Witness ==
  /\ Aggregated /\ script = "crawler"
  /\ Len(activity.recent_posts) = MaxPosts
  /\ Len(activity.recent_comments) = MaxComments
  /\ Len(aggregate.subreddit_activity) >= 2

Reorderings(xs) ==
  {[i \in DOMAIN xs |-> xs[f[i]]] :
     f \in {g \in [DOMAIN xs -> DOMAIN xs] : \A i, k \in DOMAIN xs : g[i] = g[k] => i = k}}
AsMapping(items) == Range(items)

\* C4: aggregating any permutation of the posts and any permutation of the
\* comments gives the same sorted list and the same map from community to
\* counts.
C4_OrderIndependent ==
  Aggregated =>
    \A ps \in Reorderings(activity.recent_posts) :
      \A cs \in Reorderings(activity.recent_comments) :
        IF script = "crawler"
        THEN /\ SortedSubreddits(Aggregate(ps, cs).subreddits) = active_subs
             /\ AsMapping(Aggregate(ps, cs).subreddit_activity)
                  = AsMapping(aggregate.subreddit_activity)
        ELSE SortedSubreddits(MainSubreddits(ps, cs)) = active_subs

\* C4 witness: posts in two communities and comments in two communities, so
\* that each sequence has a permutation in another order.
C4_Witness ==
  /\ Aggregated /\ script = "crawler"
  /\ Cardinality(PostCommunities) >= 2
  /\ Cardinality(CommentCommunities) >= 2

\* C5: with no post and no comment, get_active_subreddits returns an empty
\* list, its set and map are empty, the document it saves holds an empty
\* list and an empty map, and nothing is raised.
C5_EmptyInput ==
  (Aggregated /\ activity.recent_posts = <<>> /\ activity.recent_comments = <<>>) =>
    /\ active_subs = <<>>
    /\ aggregate.subreddits = {}
    /\ aggregate.subreddit_activity = <<>>
    /\ raised = "none"
    /\ pc \in {"summary", "subscriptions"}
    /\ SavedOk(ActiveName) =>
         /\ Get(Get(Document(ActiveName), "data"), "subreddits_list") = PyList(<<>>)
         /\ Get(Get(Document(ActiveName), "data"), "detailed_activity") = PyDict(<<>>)

\* C5 witness: an account without posts and comments was fetched without
\* failure, aggregated and saved.
C5_Witness ==
  /\ Aggregated
  /\ outcome["recent_activity"] = "ok"
  /\ remote.submissions = <<>> /\ remote.comments = <<>>
  /\ SavedOk(ActiveName)

\* C9: a comment body of more than 200 characters is recorded as its first
\* 200 characters followed by "..." (203 characters), a body of at most 200
\* characters as it is.
C9_BodyTruncation ==
  outcome["recent_activity"] = "ok" =>
    /\ Len(activity.recent_comments) = Len(remote.comments)
    /\ \A i \in DOMAIN remote.comments :
         LET body == remote.comments[i].body
             recorded == Get(activity.recent_comments[i], "body").v
         IN IF Len(body) > 200
            THEN /\ Len(recorded) = 203
                 /\ \A k \in 1..200 : recorded[k] = body[k]
                 /\ \A k \in 201..203 : recorded[k] = 46
            ELSE recorded = body

\* C9 witness: a body of 250 characters was fetched and recorded.
C9_Witness ==
  /\ outcome["recent_activity"] = "ok"
  /\ \E i \in DOMAIN remote.comments : Len(remote.comments[i].body) = 250

\* C6: a failed fetch is replaced by an empty result and nothing is raised
\* to the caller; after a failed activity fetch get_active_subreddits still
\* returns an empty list and still saves the active_subreddits document, with
\* an empty list and an empty map, which the file holds when the write works.
C6_FailureIsEmptyResult ==
  /\ outcome["public_info"] = "failed" => user_info = PyDict(<<>>)
  /\ outcome["recent_activity"] = "failed" =>
       /\ activity = [recent_posts |-> <<>>, recent_comments |-> <<>>]
       /\ active_subs = <<>>
       /\ pc \in {"summary", "subscriptions", "friends", "done"}
       /\ script = "crawler" =>
            /\ ActiveName \in DOMAIN saves
            /\ Get(saves[ActiveName].data, "subreddits_list") = PyList(<<>>)
            /\ Get(saves[ActiveName].data, "detailed_activity") = PyDict(<<>>)
            /\ SavedOk(ActiveName) =>
                 /\ files[ActiveName \o ".json"].valid
                 /\ Get(Document(ActiveName), "data") = saves[ActiveName].data
  /\ outcome["subscriptions"] = "failed" => my_subs = <<>>
  /\ outcome["friends"] = "failed" => my_friends = <<>>
  /\ (\E op \in Operations : outcome[op] = "failed") =>
       /\ raised = "none"
       /\ pc \notin {"credential_error", "crashed"}

\* C6 witness: every fetch failed, the activity fetch after some items, and
\* the program still saved the active_subreddits document and finished.
C6_Witness ==
  /\ script = "crawler"
  /\ \A op \in Operations : outcome[op] = "failed"
  /\ fetched["recent_activity"] > 0
  /\ SavedOk(ActiveName)
  /\ pc = "done"

\* C7 (as claimed): every credential field that is set in the environment
\* is returned by _load_credentials with the environment's value.
C7_EnvironmentPrecedence ==
  (script = "crawler" /\ reddit # NoClient) =>
    \A k \in CredentialKeys : Truthy(environ[k]) => reddit[k] = environ[k]

\* what the claim C8 calls missing and available, from the inputs alone.
FileValue(k) ==
  IF secrets_file.kind = "dict" /\ k \in DOMAIN secrets_file.content
  THEN secrets_file.content[k] ELSE PyNone
FileConsulted == ~Truthy(environ["client_id"]) /\ secrets_file.kind = "dict"
ValueAfterConsulting(k) ==
  IF FileConsulted /\ k \in DOMAIN secrets_file.content
  THEN secrets_file.content[k] ELSE environ[k]
StillMissing ==
  \/ ~Truthy(ValueAfterConsulting("client_id"))
  \/ ~Truthy(ValueAfterConsulting("client_secret"))
AvailableSomewhere(k) == Truthy(environ[k]) \/ Truthy(FileValue(k))
Fatal == pc \in {"credential_error", "crashed"}
NothingRan ==
  /\ reddit = NoClient
  /\ \A op \in Operations : outcome[op] = "not_run"
  /\ ~ENABLED NextCredentials

\* C8 (as claimed): missing required credentials always create the template
\* file and end in ValueError without a client or a fetch, and credentials
\* available from the environment or the secrets file never raise.
C8_AsClaimed ==
  [][(pc = "start" /\ script = "crawler") =>
       /\ StillMissing =>
            /\ secrets_file' = SecretsDict(secrets_template)
            /\ raised' = "ValueError"
            /\ reddit' = NoClient
            /\ pc' = "credential_error"
       /\ (AvailableSomewhere("client_id") /\ AvailableSomewhere("client_secret")) =>
            raised' = "none"]_vars

\* C8 (amended): missing required credentials end the constructor in an
\* error, without a client or a fetch: ValueError, after the template was
\* written if no secrets.json existed (an existing file is left as it is), or
\* the error of the template write if that write fails.  Credentials that
\* are both set in the environment, or both set after a loadable secrets file
\* was merged over an environment without client id, raise nothing.
C8_MissingIsFatal ==
  /\ [](Fatal => NothingRan)
  /\ [][(pc = "start" /\ script = "crawler") =>
          /\ StillMissing =>
               /\ Fatal'
               /\ raised' \in {"ValueError", "OSError"}
               /\ secrets_file.kind # "absent" =>
                    (raised' = "ValueError" /\ secrets_file' = secrets_file)
               /\ (secrets_file.kind = "absent" /\ raised' = "ValueError") =>
                    secrets_file' = SecretsDict(secrets_template)
          /\ ~StillMissing =>
               /\ raised' = "none"
               /\ pc' = "info"
               /\ reddit' # NoClient
               /\ secrets_file' = secrets_file]_vars

\* C8 witness: credentials were missing although a secrets.json existed; the
\* constructor ended in ValueError and the file is not the template.
C8_Witness ==
  /\ pc = "credential_error"
  /\ raised = "ValueError"
  /\ secrets_file.kind = "dict"
  /\ secrets_file # SecretsDict(secrets_template)

\* C10: after a successful _save_to_json(data, filename) the file
\* <filename>.json reads back as a dict with exactly the keys timestamp,
\* data_type and data: the payload as passed, the file name, and a timestamp
\* text that parses to the time of the save; whatever the file held before is
\* gone.
C10_RoundTrip ==
  \A f \in DOMAIN saves :
    saves[f].io = "ok" =>
      /\ (f \o ".json") \in DOMAIN files
      /\ files[f \o ".json"].valid
      /\ Keys(Document(f)) = {"timestamp", "data_type", "data"}
      /\ Len(Document(f).v) = 3
      /\ Get(Document(f), "data_type") = PyStr(f)
      /\ Get(Document(f), "timestamp").t = "str"
      /\ fromisoformat(Get(Document(f), "timestamp").v) # NotADate
      /\ fromisoformat(Get(Document(f), "timestamp").v) = saves[f].now
      /\ Get(Document(f), "data") = saves[f].data

\* C10 witness: the directory held the documents of an earlier run, and a
\* save of this run replaced the earlier user_recent_activity document by one
\* with another payload.
RecentName == "user_recent_activity_" \o target_username
C10_Witness ==
  /\ SavedOk(RecentName)
  /\ "my_friends.json" \in DOMAIN files
  /\ "my_friends" \notin DOMAIN saves
  /\ Get(saves[RecentName].data, "posts_count")
       # Get(Get(JsonLoad(EarlierDir[RecentName \o ".json"].text), "data"), "posts_count")

\* the end of main(): crawl_user_complete returned its summary after the
\* crawl_summary write was tried, and both calls on the own account were made.
SummaryName == "crawl_summary_" \o target_username
Completed ==
  /\ pc = "done"
  /\ summary.t = "dict"
  /\ SummaryName \in DOMAIN saves
  /\ outcome["subscriptions"] # "not_run"
  /\ outcome["friends"] # "not_run"

\* C11: once the crawler is constructed the program runs to its end whatever
\* fails: crawl_user_complete returns a summary after trying to write the
\* crawl_summary document, and main then calls get_my_subscriptions and
\* get_my_friends and reaches its last message.
C11_RunsToCompletion ==
  (script = "crawler" /\ pc = "info") ~> Completed

\* C11 witness: every fetch failed and both writes that were still tried
\* failed, and the program reached its end with a summary.
C11_Witness ==
  /\ script = "crawler"
  /\ Completed
  /\ \A op \in Operations : outcome[op] = "failed"
  /\ saves[ActiveName].io = "write_error"
  /\ saves[SummaryName].io = "open_error"

\* C12: nothing fetched before a failure is kept: a failure of
\* get_user_recent_activity after some posts, or among the comments after all
\* posts, returns no posts and no comments, and a failure of
\* get_my_subscriptions or get_my_friends after some items returns an empty list.
C12_NoPartialResults ==
  /\ (outcome["recent_activity"] = "failed" /\ fetched["recent_activity"] > 0) =>
       /\ Len(activity.recent_posts) = 0
       /\ Len(activity.recent_comments) = 0
  /\ (outcome["subscriptions"] = "failed" /\ fetched["subscriptions"] > 0) =>
       Len(my_subs) = 0
  /\ (outcome["friends"] = "failed" /\ fetched["friends"] > 0) =>
       Len(my_friends) = 0

\* C12 witness: the activity fetch failed among the comments, after every post
\* had been fetched, and both listings of the own account failed after an item.
C12_Witness ==
  /\ pc = "done"
  /\ Len(remote.submissions) > 0
  /\ outcome["recent_activity"] = "failed"
  /\ fetched["recent_activity"] > Len(remote.submissions)
  /\ outcome["subscriptions"] = "failed" /\ fetched["subscriptions"] > 0
  /\ outcome["friends"] = "failed" /\ fetched["friends"] > 0

\* the document each fetch operation saves, and a step that leaves a file as
\* it was (absent, or the same content).
OwnFile(op) ==
  CASE op = "public_info" -> "user_public_info_" \o target_username \o ".json"
    [] op = "recent_activity" -> "user_recent_activity_" \o target_username \o ".json"
    [] op = "subscriptions" -> "my_subscriptions.json"
    [] op = "friends" -> "my_friends.json"
Untouched(path) ==
  IF path \in DOMAIN files
  THEN path \in DOMAIN files' /\ files'[path] = files[path]
  ELSE path \notin DOMAIN files'

\* C13: a fetch operation that fails writes no document of its own: the step
\* in which get_user_public_info, get_user_recent_activity,
\* get_my_subscriptions or get_my_friends fails leaves its file as it was, so
\* an earlier document is not replaced by an empty one.
C13_FailedFetchWritesNothing ==
  [][\A op \in Operations :
       (outcome[op] = "not_run" /\ outcome'[op] = "failed") => Untouched(OwnFile(op))]_vars

\* C13 witness: an earlier run left its documents, every fetch of this run
\* failed, and the four documents are still the earlier ones.
C13_Witness ==
  /\ script = "crawler"
  /\ pc = "done"
  /\ \A op \in Operations : outcome[op] = "failed"
  /\ \A op \in Operations :
       /\ OwnFile(op) \in DOMAIN files
       /\ files[OwnFile(op)].valid
       /\ files[OwnFile(op)] = EarlierDir[OwnFile(op)]

====
